---- MODULE Spec2Model ----
(***************************************************************************)
(* Model of pyweb/util.py: ReadFileContent, WriteFileContent,              *)
(* PathAsSuffix, RelocatePath and CreateDir, over an abstract POSIX        *)
(* filesystem.                                                             *)
(*                                                                         *)
(* Path strings are sequences of one-character strings; filesystem paths   *)
(* are sequences of component names below the root directory; texts are    *)
(* sequences of code points and file contents are sequences of bytes.      *)
(***************************************************************************)
EXTENDS Integers, Sequences, FiniteSets, TLC

VARIABLES fs, handles, proc, written, created, spath, sroot, snew_root, sresult, spc

vars == <<fs, handles, proc, written, created, spath, sroot, snew_root, sresult, spc>>

fsvars == <<fs, handles, proc, written, created>>

strvars == <<spath, sroot, snew_root, sresult, spc>>

(***************************************************************************)
(* Bounds                                                                  *)
(***************************************************************************)
MaxPathLen == 6

MaxDepth == 2

MaxCalls == 2

SeqsUpTo(S, n) == UNION {[1..k -> S] : k \in 0..n}

(***************************************************************************)
(* String helpers (Python str methods)                                     *)
(***************************************************************************)
startswith(s, prefix) ==
    /\ Len(prefix) <= Len(s)
    /\ SubSeq(s, 1, Len(prefix)) = prefix

endswith(s, suffix) ==
    /\ Len(suffix) <= Len(s)
    /\ SubSeq(s, Len(s) - Len(suffix) + 1, Len(s)) = suffix

SliceFrom(s, n) == SubSeq(s, n + 1, Len(s))

RECURSIVE LStripSep(_)
LStripSep(s) == IF startswith(s, <<"/">>) THEN LStripSep(SliceFrom(s, 1)) ELSE s

(***************************************************************************)
(* PathAsSuffix(path, root): the assert is modelled by the caller          *)
(***************************************************************************)
\* variant: strips every leading separator
PathAsSuffixStripAll(path, root) == LStripSep(SliceFrom(path, Len(root)))

PathAsSuffix(path, root) ==
    LET suffix == SliceFrom(path, Len(root))
    IN  IF startswith(suffix, <<"/">>) THEN SliceFrom(suffix, 1) ELSE suffix

(***************************************************************************)
(* os.path.join(a, b) of posixpath, two arguments                          *)
(***************************************************************************)
join(a, b) ==
    IF startswith(b, <<"/">>) THEN b
    ELSE IF a = <<>> \/ endswith(a, <<"/">>) THEN a \o b
    ELSE a \o <<"/">> \o b

RelocatePath(path, orig_root, new_root) ==
    LET suffix == PathAsSuffix(path, orig_root)
    IN  join(new_root, suffix)

(***************************************************************************)
(* Inputs of the pure path functions                                       *)
(***************************************************************************)
PathChars == {"/", "a", "b", "c"}

PathStrings == SeqsUpTo(PathChars, MaxPathLen)

Prefixes(s) == {SubSeq(s, 1, k) : k \in 0..Len(s)}

OtherRoots == {<<"/", "x">>, <<"b">>}

NewRoots == {<<>>, <<"/", "x">>, <<"/", "x", "/">>}

NoStr == <<"?">>

StrIdle ==
    /\ spath = NoStr
    /\ sroot = NoStr
    /\ snew_root = NoStr
    /\ sresult = NoStr
    /\ spc = "off"

StrInit ==
    /\ spath \in PathStrings
    /\ sroot \in Prefixes(spath) \cup OtherRoots
    /\ snew_root = NoStr
    /\ sresult = NoStr
    /\ spc = "input"

CallPathAsSuffix ==
    /\ spc = "input"
    /\ startswith(spath, sroot)
    /\ sresult' = PathAsSuffix(spath, sroot)
    /\ spc' = "PathAsSuffix"
    /\ UNCHANGED <<spath, sroot, snew_root>>
    /\ UNCHANGED fsvars

CallRelocatePath ==
    /\ spc = "input"
    /\ startswith(spath, sroot)
    /\ \E new_root \in NewRoots :
          /\ snew_root' = new_root
          /\ sresult' = RelocatePath(spath, sroot, new_root)
    /\ spc' = "RelocatePath"
    /\ UNCHANGED <<spath, sroot>>
    /\ UNCHANGED fsvars

AssertFails ==
    /\ spc = "input"
    /\ ~startswith(spath, sroot)
    /\ spc' = "AssertionError"
    /\ UNCHANGED <<spath, sroot, snew_root, sresult>>
    /\ UNCHANGED fsvars

FsIdle ==
    /\ fs = <<>>
    /\ handles = {}
    /\ proc = <<>>
    /\ written = <<>>
    /\ created = {}

InitPath == FsIdle /\ StrInit

(***************************************************************************)
(* Codecs: str.encode / str.decode for "utf-8" and "ascii"                 *)
(***************************************************************************)
Codecs == {"utf-8", "ascii"}

\* "", "a", "\xe9", "a\xe9"
Texts == {<<>>, <<97>>, <<233>>, <<97, 233>>}

EncodeChar(cp, codec) ==
    IF cp < 128 THEN <<cp>>
    ELSE IF cp < 2048 THEN <<192 + (cp \div 64), 128 + (cp % 64)>>
    ELSE <<224 + (cp \div 4096), 128 + ((cp \div 64) % 64), 128 + (cp % 64)>>

\* variant: never reports an encoding failure
CanEncodeAlways(text, codec) == TRUE

CanEncode(text, codec) ==
    codec = "utf-8" \/ \A i \in 1..Len(text) : text[i] < 128

RECURSIVE encode(_, _)
encode(text, codec) ==
    IF text = <<>> THEN <<>>
    ELSE EncodeChar(Head(text), codec) \o encode(Tail(text), codec)

IsCont(b) == b \in 128..191

\* number of bytes of the UTF-8 sequence that starts s, 0 if s starts with none
Utf8SeqLen(s) ==
    IF s[1] < 128 THEN 1
    ELSE IF s[1] \in 194..223 /\ Len(s) >= 2 /\ IsCont(s[2]) THEN 2
    ELSE IF /\ s[1] \in 224..239
            /\ Len(s) >= 3
            /\ IsCont(s[2])
            /\ IsCont(s[3])
            /\ (s[1] = 224 => s[2] >= 160)
         THEN 3
    ELSE 0

Utf8CodePoint(s, n) ==
    IF n = 1 THEN s[1]
    ELSE IF n = 2 THEN (s[1] - 192) * 64 + (s[2] - 128)
    ELSE (s[1] - 224) * 4096 + (s[2] - 128) * 64 + (s[3] - 128)

RECURSIVE CanDecodeUtf8(_)
CanDecodeUtf8(s) ==
    \/ s = <<>>
    \/ /\ Utf8SeqLen(s) > 0
       /\ CanDecodeUtf8(SliceFrom(s, Utf8SeqLen(s)))

RECURSIVE DecodeUtf8(_)
DecodeUtf8(s) ==
    IF s = <<>> THEN <<>>
    ELSE <<Utf8CodePoint(s, Utf8SeqLen(s))>> \o DecodeUtf8(SliceFrom(s, Utf8SeqLen(s)))

CanDecode(bytes, codec) ==
    IF codec = "utf-8" THEN CanDecodeUtf8(bytes)
    ELSE \A i \in 1..Len(bytes) : bytes[i] < 128

\* variant: ignores the codec
decodeRaw(bytes, codec) == bytes

decode(bytes, codec) ==
    IF codec = "utf-8" THEN DecodeUtf8(bytes) ELSE bytes

(***************************************************************************)
(* The filesystem: a tree of entries below the root directory              *)
(***************************************************************************)
Names == {"a", "b"}

\* the paths of the model: a chain of directories named "a", each with a sibling "b"
FsPaths ==
    {q \in SeqsUpTo(Names, MaxDepth) \ {<<>>} : \A i \in 1..(Len(q) - 1) : q[i] = "a"}

Absent == [kind |-> "none", data |-> <<>>]

Dir == [kind |-> "dir", data |-> <<>>]

Special == [kind |-> "special", data |-> <<>>]

File(bytes) == [kind |-> "file", data |-> bytes]

Parent(p) == SubSeq(p, 1, Len(p) - 1)

KindOf(F, p) == IF p = <<>> THEN "dir" ELSE F[p].kind

\* os.path.exists / isfile / isdir: stat() fails below a missing or non-directory parent
exists(F, p) == KindOf(F, p) # "none"

\* variant: any entry counts as a file
isfileAnyEntry(F, p) == KindOf(F, p) # "none"

isfile(F, p) == KindOf(F, p) = "file"

isdir(F, p) == KindOf(F, p) = "dir"

InitContents == {<<233>>, <<195, 169>>}

InitEntries == {Dir, Special} \cup {File(b) : b \in InitContents}

EmptyFs == [q \in FsPaths |-> Absent]

SeedFs(s, e) ==
    [q \in FsPaths |->
        IF q = s THEN e
        ELSE IF Len(q) < Len(s) /\ SubSeq(s, 1, Len(q)) = q THEN Dir
        ELSE Absent]

InitFs == {EmptyFs} \cup {SeedFs(s, e) : s \in FsPaths, e \in InitEntries}

(***************************************************************************)
(* Callers                                                                 *)
(***************************************************************************)
Procs == {"p1", "p2"}

NoResult == [tag |-> "none", value |-> <<>>]

Returns(v) == [tag |-> "ok", value |-> v]

Raises(e) == [tag |-> e, value |-> <<>>]

IdleProc ==
    [pc |-> "idle", op |-> "none", filename |-> <<>>, content |-> <<>>,
     codec |-> "none", data |-> <<>>, stack |-> <<>>, result |-> NoResult,
     calls |-> 0, fs0 |-> <<>>, again |-> FALSE]

RECURSIVE SumCalls(_)
SumCalls(S) ==
    IF S = {} THEN 0
    ELSE LET q == CHOOSE x \in S : TRUE IN proc[q].calls + SumCalls(S \ {q})

\* a run makes at most MaxCalls calls
CanCall(p) == proc[p].pc = "idle" /\ SumCalls(Procs) < MaxCalls

\* the frame of a new call: its arguments and the filesystem it starts in
Call(p, o, filename, content, codec) ==
    [proc[p] EXCEPT !.op = o, !.filename = filename, !.content = content,
                    !.codec = codec, !.data = <<>>, !.stack = <<>>,
                    !.result = NoResult, !.calls = @ + 1, !.fs0 = fs,
                    !.again = (filename \in created)]

Exit(r, res) == [r EXCEPT !.pc = "done", !.result = res]

\* the caller takes the result or the exception and goes on
Return(p) ==
    /\ proc[p].pc = "done"
    /\ proc' = [proc EXCEPT ![p] = [IdleProc EXCEPT !.calls = proc[p].calls]]
    /\ UNCHANGED <<fs, handles, written, created>>
    /\ UNCHANGED strvars

\* history: the text and codec of the last completed write of each path, and the
\* entry the path held when that call began
NotWritten == [done |-> FALSE, content |-> <<>>, codec |-> "none", before |-> <<>>]

Handle(p, filename, mode) == [owner |-> p, filename |-> filename, mode |-> mode]

\* file objects of p's earlier calls are unreachable and closed by reference counting
Reclaimed(p) == {h \in handles : h.owner # p}

(***************************************************************************)
(* ReadFileContent(filename, codec)                                        *)
(***************************************************************************)
\* lines 44-47: the isfile test and open(filename, 'rb')
ReadFileContent(p, filename, codec) ==
    /\ CanCall(p)
    /\ LET r == Call(p, "ReadFileContent", filename, <<>>, codec)
       IN  IF ~isfile(fs, filename)
           THEN /\ proc' = [proc EXCEPT ![p] = Exit(r, Raises("FileNotFoundError"))]
                /\ handles' = Reclaimed(p)
           ELSE /\ proc' = [proc EXCEPT ![p] = [r EXCEPT !.pc = "read"]]
                /\ handles' = Reclaimed(p) \cup {Handle(p, filename, "rb")}
    /\ UNCHANGED <<fs, written, created>>
    /\ UNCHANGED strvars

\* line 48: content = f.read()
ReadRead(p) ==
    /\ proc[p].pc = "read"
    /\ proc' = [proc EXCEPT ![p].data = fs[proc[p].filename].data,
                            ![p].pc = "read_close"]
    /\ UNCHANGED <<fs, handles, written, created>>
    /\ UNCHANGED strvars

\* line 48: f.read() raises IOError, which leaves the function
ReadIOError(p) ==
    /\ proc[p].pc = "read"
    /\ proc' = [proc EXCEPT ![p] = Exit(proc[p], Raises("IOError"))]
    /\ UNCHANGED <<fs, handles, written, created>>
    /\ UNCHANGED strvars

\* lines 49-54: f.close(), then decode
ReadClose(p) ==
    /\ proc[p].pc = "read_close"
    /\ handles' = handles \ {Handle(p, proc[p].filename, "rb")}
    /\ proc' = [proc EXCEPT ![p] =
            IF CanDecode(proc[p].data, proc[p].codec)
            THEN Exit(proc[p], Returns(decode(proc[p].data, proc[p].codec)))
            ELSE Exit(proc[p], Raises("FileEncodingError"))]
    /\ UNCHANGED <<fs, written, created>>
    /\ UNCHANGED strvars

(***************************************************************************)
(* WriteFileContent(filename, content, codec)                              *)
(***************************************************************************)
\* open(filename, 'wb') needs a parent directory and no non-file at filename
CanOpenForWrite(F, filename) ==
    isdir(F, Parent(filename)) /\ KindOf(F, filename) \in {"none", "file"}

\* variant: without the obstruction test
WriteOutcomeNoTest(F, filename, content, codec) ==
    IF ~CanEncode(content, codec) THEN "FileEncodingError"
    ELSE IF ~CanOpenForWrite(F, filename) THEN "IOError"
    ELSE "open"

WriteOutcome(F, filename, content, codec) ==
    IF exists(F, filename) /\ ~isfile(F, filename) THEN "PathObstructedError"
    ELSE IF ~CanEncode(content, codec) THEN "FileEncodingError"
    ELSE IF ~CanOpenForWrite(F, filename) THEN "IOError"
    ELSE "open"

\* lines 74-82: the obstruction test, encode, open(filename, 'wb') which truncates
WriteFileContent(p, filename, content, codec) ==
    /\ CanCall(p)
    /\ LET r == Call(p, "WriteFileContent", filename, content, codec)
           o == WriteOutcome(fs, filename, content, codec)
       IN  IF o = "open"
           THEN /\ proc' = [proc EXCEPT ![p] =
                        [r EXCEPT !.data = encode(content, codec), !.pc = "write"]]
                /\ fs' = [fs EXCEPT ![filename] = File(<<>>)]
                /\ handles' = Reclaimed(p) \cup {Handle(p, filename, "wb")}
                /\ written' = [written EXCEPT ![filename] = NotWritten]
           ELSE /\ proc' = [proc EXCEPT ![p] = Exit(r, Raises(o))]
                /\ handles' = Reclaimed(p)
                /\ UNCHANGED <<fs, written>>
    /\ UNCHANGED created
    /\ UNCHANGED strvars

\* line 83: f.write(content)
WriteWrite(p) ==
    /\ proc[p].pc = "write"
    /\ fs' = [fs EXCEPT ![proc[p].filename] = File(proc[p].data)]
    /\ proc' = [proc EXCEPT ![p].pc = "write_close"]
    /\ UNCHANGED <<handles, written, created>>
    /\ UNCHANGED strvars

\* line 83: f.write() raises IOError after writing some part of the data
WriteIOError(p) ==
    /\ proc[p].pc = "write"
    /\ \E k \in 0..Len(proc[p].data) :
          fs' = [fs EXCEPT ![proc[p].filename] = File(SubSeq(proc[p].data, 1, k))]
    /\ proc' = [proc EXCEPT ![p] = Exit(proc[p], Raises("IOError"))]
    /\ UNCHANGED <<handles, written, created>>
    /\ UNCHANGED strvars

\* line 84: f.close()
WriteClose(p) ==
    /\ proc[p].pc = "write_close"
    /\ handles' = handles \ {Handle(p, proc[p].filename, "wb")}
    /\ proc' = [proc EXCEPT ![p] = Exit(proc[p], Returns(<<>>))]
    /\ written' = [written EXCEPT ![proc[p].filename] =
            [done |-> TRUE, content |-> proc[p].content, codec |-> proc[p].codec,
             before |-> proc[p].fs0[proc[p].filename]]]
    /\ UNCHANGED <<fs, created>>
    /\ UNCHANGED strvars

(***************************************************************************)
(* CreateDir(path) and os.makedirs                                         *)
(***************************************************************************)
Frame(name, phase) == [name |-> name, phase |-> phase]

Top(stack) == stack[Len(stack)]

Pop(stack) == SubSeq(stack, 1, Len(stack) - 1)

\* variant: without the existence test of line 139
CreateDirOutcomeNoExistsTest(F, path) ==
    IF exists(F, path) /\ ~isdir(F, path) THEN "PathObstructedError" ELSE "makedirs"

CreateDirOutcome(F, path) ==
    IF exists(F, path) /\ ~isdir(F, path) THEN "PathObstructedError"
    ELSE IF ~exists(F, path) THEN "makedirs"
    ELSE "return"

\* lines 136-139: the obstruction test and the existence test
CreateDir(p, path) ==
    /\ CanCall(p)
    /\ LET r == Call(p, "CreateDir", path, <<>>, "none")
           o == CreateDirOutcome(fs, path)
       IN  IF o = "PathObstructedError"
           THEN /\ proc' = [proc EXCEPT ![p] = Exit(r, Raises(o))]
                /\ UNCHANGED created
           ELSE IF o = "return"
           THEN /\ proc' = [proc EXCEPT ![p] = Exit(r, Returns(<<>>))]
                /\ created' = created \cup {path}
           ELSE /\ proc' = [proc EXCEPT ![p] =
                        [r EXCEPT !.pc = "makedirs", !.stack = <<Frame(path, "check")>>]]
                /\ UNCHANGED created
    /\ handles' = Reclaimed(p)
    /\ UNCHANGED <<fs, written>>
    /\ UNCHANGED strvars

\* variant: makes head in place of name
MakedirsCheckHeadOnly(p) ==
    /\ proc[p].pc = "makedirs"
    /\ Top(proc[p].stack).phase = "check"
    /\ LET stack == proc[p].stack
           name == Top(stack).name
           head == Parent(name)
       IN  proc' = [proc EXCEPT ![p].stack =
                IF head # <<>> /\ ~exists(fs, head)
                THEN Append(Pop(stack), Frame(head, "check"))
                ELSE Append(Pop(stack), Frame(name, "mkdir"))]
    /\ UNCHANGED <<fs, handles, written, created>>
    /\ UNCHANGED strvars

\* makedirs(name): recurse into head when head does not exist
MakedirsCheck(p) ==
    /\ proc[p].pc = "makedirs"
    /\ Top(proc[p].stack).phase = "check"
    /\ LET stack == proc[p].stack
           name == Top(stack).name
           head == Parent(name)
           here == Append(Pop(stack), Frame(name, "mkdir"))
       IN  proc' = [proc EXCEPT ![p].stack =
                IF head # <<>> /\ ~exists(fs, head)
                THEN Append(here, Frame(head, "check"))
                ELSE here]
    /\ UNCHANGED <<fs, handles, written, created>>
    /\ UNCHANGED strvars

\* the errno of mkdir(name), "ok" when it creates the directory
MkdirErrno(F, name) ==
    IF ~exists(F, Parent(name)) THEN "ENOENT"
    ELSE IF ~isdir(F, Parent(name)) THEN "ENOTDIR"
    ELSE IF exists(F, name) THEN "EEXIST"
    ELSE "ok"

MakedirsMkdir(p) ==
    /\ proc[p].pc = "makedirs"
    /\ Top(proc[p].stack).phase = "mkdir"
    /\ MkdirErrno(fs, Top(proc[p].stack).name) = "ok"
    /\ fs' = [fs EXCEPT ![Top(proc[p].stack).name] = Dir]
    /\ IF Len(proc[p].stack) = 1
       THEN /\ proc' = [proc EXCEPT ![p] = Exit([proc[p] EXCEPT !.stack = <<>>], Returns(<<>>))]
            /\ created' = created \cup {proc[p].filename}
       ELSE /\ proc' = [proc EXCEPT ![p].stack = Pop(proc[p].stack)]
            /\ UNCHANGED created
    /\ UNCHANGED <<handles, written>>
    /\ UNCHANGED strvars

\* mkdir fails: a recursive makedirs swallows EEXIST, anything else reaches CreateDir
MakedirsError(p) ==
    /\ proc[p].pc = "makedirs"
    /\ Top(proc[p].stack).phase = "mkdir"
    /\ MkdirErrno(fs, Top(proc[p].stack).name) # "ok"
    /\ proc' = [proc EXCEPT ![p] =
            IF Len(proc[p].stack) > 1 /\ MkdirErrno(fs, Top(proc[p].stack).name) = "EEXIST"
            THEN [proc[p] EXCEPT !.stack = Pop(proc[p].stack)]
            ELSE Exit([proc[p] EXCEPT !.stack = <<>>], Raises("PathObstructedError"))]
    /\ UNCHANGED <<fs, handles, written, created>>
    /\ UNCHANGED strvars

\* another process of the system creates a directory
EnvMkdir(path) ==
    /\ MkdirErrno(fs, path) = "ok"
    /\ fs' = [fs EXCEPT ![path] = Dir]
    /\ UNCHANGED <<handles, proc, written, created>>
    /\ UNCHANGED strvars

FsInit ==
    /\ fs \in InitFs
    /\ handles = {}
    /\ proc = [p \in Procs |-> IdleProc]
    /\ written = [q \in FsPaths |-> NotWritten]
    /\ created = {}

Init == FsInit /\ StrIdle

\* the one caller of the sequential specification
Caller == "p1"

Next ==
    \/ \E filename \in FsPaths, codec \in Codecs : ReadFileContent(Caller, filename, codec)
    \/ ReadRead(Caller)
    \/ ReadIOError(Caller)
    \/ ReadClose(Caller)
    \/ \E filename \in FsPaths, content \in Texts, codec \in Codecs :
          WriteFileContent(Caller, filename, content, codec)
    \/ WriteWrite(Caller)
    \/ WriteIOError(Caller)
    \/ WriteClose(Caller)
    \/ \E path \in FsPaths : CreateDir(Caller, path)
    \/ MakedirsCheck(Caller)
    \/ MakedirsMkdir(Caller)
    \/ MakedirsError(Caller)
    \/ Return(Caller)

Spec == Init /\ [][Next]_vars

(***************************************************************************)
(* Two callers of CreateDir and a foreign process, interleaved             *)
(***************************************************************************)
NextConc ==
    \/ \E p \in Procs, path \in FsPaths : CreateDir(p, path)
    \/ \E p \in Procs : MakedirsCheck(p)
    \/ \E p \in Procs : MakedirsMkdir(p)
    \/ \E p \in Procs : MakedirsError(p)
    \/ \E p \in Procs : Return(p)
    \/ \E path \in FsPaths : EnvMkdir(path)

SpecConc == Init /\ [][NextConc]_vars



(***************************************************************************)
(* Properties                                                              *)
(***************************************************************************)
IsDone(p, o) == proc[p].pc = "done" /\ proc[p].op = o

Holds(p) == {h \in handles : h.owner = p}

\* the non-empty prefixes of a path: the path and its ancestors
Ancestry(path) == {SubSeq(path, 1, k) : k \in 1..Len(path)}

\* C1: a write of a text the codec can encode, to a path that is absent or a
\* regular file in an existing directory, returns (unless the write itself fails
\* with an I/O error) and leaves the file holding the encoding of the text and
\* nothing of what it held before; a read that completes, of a path whose last
\* completed write stored text T under the same codec, returns exactly T.
RoundTrip ==
    \A p \in Procs :
        /\ ( /\ IsDone(p, "WriteFileContent")
             /\ KindOf(proc[p].fs0, proc[p].filename) \in {"none", "file"}
             /\ KindOf(proc[p].fs0, Parent(proc[p].filename)) = "dir"
             /\ (proc[p].codec = "ascii" =>
                    \A i \in DOMAIN proc[p].content : proc[p].content[i] < 128)
             /\ proc[p].result.tag # "IOError" )
           => /\ proc[p].result = Returns(<<>>)
              /\ written[proc[p].filename].done
              /\ written[proc[p].filename].content = proc[p].content
              /\ written[proc[p].filename].codec = proc[p].codec
        /\ \A f \in FsPaths :
              written[f].done => fs[f] = File(encode(written[f].content, written[f].codec))
        /\ ( /\ IsDone(p, "ReadFileContent")
             /\ proc[p].result.tag # "IOError"
             /\ written[proc[p].filename].done
             /\ written[proc[p].filename].codec = proc[p].codec )
           => proc[p].result = Returns(written[proc[p].filename].content)

RoundTripWitness ==
    /\ IsDone(Caller, "ReadFileContent")
    /\ proc[Caller].codec = "utf-8"
    /\ written[proc[Caller].filename].done
    /\ written[proc[Caller].filename].codec = "utf-8"
    /\ written[proc[Caller].filename].before = File(<<233>>)
    /\ proc[Caller].result = Returns(<<97, 233>>)

\* C2: ReadFileContent of a path that is absent or not a regular file raises
\* FileNotFoundError, holds no file handle and leaves the filesystem as it was.
ReadNotFound ==
    \A p \in Procs :
        (IsDone(p, "ReadFileContent") /\ KindOf(proc[p].fs0, proc[p].filename) # "file")
        => /\ proc[p].result = Raises("FileNotFoundError")
           /\ Holds(p) = {}
           /\ fs = proc[p].fs0

ReadNotFoundWitness ==
    /\ IsDone(Caller, "ReadFileContent")
    /\ KindOf(proc[Caller].fs0, proc[Caller].filename) = "dir"
    /\ proc[Caller].result = Raises("FileNotFoundError")

\* C3: WriteFileContent of a path holding a non-file, and CreateDir of a path
\* holding a non-directory, raise PathObstructedError and leave the filesystem as
\* it was.
Obstructed ==
    \A p \in Procs :
        /\ ( /\ IsDone(p, "WriteFileContent")
             /\ KindOf(proc[p].fs0, proc[p].filename) \in {"dir", "special"} )
           => (proc[p].result = Raises("PathObstructedError") /\ fs = proc[p].fs0)
        /\ ( /\ IsDone(p, "CreateDir")
             /\ KindOf(proc[p].fs0, proc[p].filename) \in {"file", "special"} )
           => (proc[p].result = Raises("PathObstructedError") /\ fs = proc[p].fs0)

ObstructedWitness ==
    /\ IsDone(Caller, "WriteFileContent")
    /\ KindOf(proc[Caller].fs0, proc[Caller].filename) = "dir"
    /\ proc[Caller].result = Raises("PathObstructedError")
    /\ fs = proc[Caller].fs0

\* C4: a conversion that fails raises FileEncodingError: a read that got the bytes
\* of a file which the codec cannot decode, and a write (of an unobstructed path)
\* whose text the codec cannot encode; the write then leaves the filesystem as it
\* was, the target neither created nor modified.
EncodingErrors ==
    \A p \in Procs :
        /\ ( /\ IsDone(p, "ReadFileContent")
             /\ isfile(proc[p].fs0, proc[p].filename)
             /\ proc[p].result.tag # "IOError"
             /\ ~CanDecodeUtf8(proc[p].fs0[proc[p].filename].data)
             /\ proc[p].codec = "utf-8" )
           => proc[p].result = Raises("FileEncodingError")
        /\ ( /\ IsDone(p, "ReadFileContent")
             /\ isfile(proc[p].fs0, proc[p].filename)
             /\ proc[p].result.tag # "IOError"
             /\ \E i \in DOMAIN proc[p].fs0[proc[p].filename].data :
                   proc[p].fs0[proc[p].filename].data[i] >= 128
             /\ proc[p].codec = "ascii" )
           => proc[p].result = Raises("FileEncodingError")
        /\ ( /\ IsDone(p, "WriteFileContent")
             /\ KindOf(proc[p].fs0, proc[p].filename) \in {"none", "file"}
             /\ \E i \in DOMAIN proc[p].content : proc[p].content[i] >= 128
             /\ proc[p].codec = "ascii" )
           => (proc[p].result = Raises("FileEncodingError") /\ fs = proc[p].fs0)

EncodingErrorsWitness ==
    /\ IsDone(Caller, "WriteFileContent")
    /\ proc[Caller].codec = "ascii"
    /\ proc[Caller].content = <<97, 233>>
    /\ isfile(proc[Caller].fs0, proc[Caller].filename)
    /\ proc[Caller].result = Raises("FileEncodingError")
    /\ fs = proc[Caller].fs0

\* C5: no call of ReadFileContent or WriteFileContent has exited, by return or by
\* exception, while a file handle it opened is still open.
HandlesReleased ==
    \A p \in Procs : proc[p].pc = "done" => Holds(p) = {}

\* C6: CreateDir of a path where a directory exists, in particular of a path an
\* earlier CreateDir has returned from, returns without error and leaves the
\* filesystem as it was.
CreateDirIdempotent ==
    \A p \in Procs :
        ( /\ IsDone(p, "CreateDir")
          /\ (KindOf(proc[p].fs0, proc[p].filename) = "dir" \/ proc[p].again) )
        => (proc[p].result = Returns(<<>>) /\ fs = proc[p].fs0)

CreateDirIdempotentWitness ==
    /\ IsDone(Caller, "CreateDir")
    /\ proc[Caller].again
    /\ Len(proc[Caller].filename) > 1
    /\ proc[Caller].result = Returns(<<>>)
    /\ fs = proc[Caller].fs0

\* C7: when CreateDir(path) has returned without error, path and every ancestor
\* of path is a directory, and every entry that existed when the call began is
\* still there, unchanged.
CreateDirMakesAll ==
    \A p \in Procs :
        (IsDone(p, "CreateDir") /\ proc[p].result.tag = "ok")
        => /\ \A q \in Ancestry(proc[p].filename) : KindOf(fs, q) = "dir"
           /\ \A q \in FsPaths : KindOf(proc[p].fs0, q) # "none" => fs[q] = proc[p].fs0[q]

CreateDirMakesAllWitness ==
    /\ IsDone(Caller, "CreateDir")
    /\ proc[Caller].result.tag = "ok"
    /\ Len(proc[Caller].filename) > 1
    /\ KindOf(proc[Caller].fs0, Parent(proc[Caller].filename)) = "none"
    /\ \E q \in FsPaths : KindOf(proc[Caller].fs0, q) = "file"
    /\ \A q \in Ancestry(proc[Caller].filename) : KindOf(fs, q) = "dir"

\* C8: for a root that is a prefix of path, PathAsSuffix returns what follows the
\* root in path, less one leading "/" if there is one and no more than one;
\* PathAsSuffix("/a/b/c", "/a/b") and PathAsSuffix("/a/b/c", "/a/b/") are "c".
SuffixOfPath ==
    spc = "PathAsSuffix"
    => /\ IF Len(spath) > Len(sroot) /\ spath[Len(sroot) + 1] = "/"
          THEN spath = sroot \o <<"/">> \o sresult
          ELSE spath = sroot \o sresult
       /\ ( /\ spath = <<"/", "a", "/", "b", "/", "c">>
            /\ sroot \in {<<"/", "a", "/", "b">>, <<"/", "a", "/", "b", "/">>} )
          => sresult = <<"c">>

SuffixOfPathWitness ==
    /\ spc = "PathAsSuffix"
    /\ spath = <<"/", "a", "/", "/", "b">>
    /\ sroot = <<"/", "a">>
    /\ sresult = <<"/", "b">>

\* C9: for an orig_root that is a prefix of path, the result of RelocatePath
\* begins with new_root and ends with PathAsSuffix(path, orig_root).
RelocateUnderNewRoot ==
    spc = "RelocatePath"
    => /\ startswith(sresult, snew_root)
       /\ endswith(sresult, PathAsSuffix(spath, sroot))

\* C10: a CreateDir call that has exited, with no non-directory at its path or at
\* an ancestor, has returned without error and its path is a directory, however
\* it was interleaved with other CreateDir calls and foreign mkdirs.
ConcurrentCreateDir ==
    \A p \in Procs :
        ( /\ IsDone(p, "CreateDir")
          /\ \A q \in Ancestry(proc[p].filename) : KindOf(fs, q) \in {"none", "dir"} )
        => (proc[p].result = Returns(<<>>) /\ KindOf(fs, proc[p].filename) = "dir")

(***************************************************************************)
(* The pure path functions on their own                                    *)
(***************************************************************************)
NextPath == CallPathAsSuffix \/ CallRelocatePath \/ AssertFails

SpecPath == InitPath /\ [][NextPath]_vars

====
